---- MODULE Spec2Model ----
(***************************************************************************)
(* Time tracking system: the Session Merger (SessionManager), the          *)
(* Work-Hour Calculator and Interval Overlap Detector (TimeCalculator),    *)
(* the /login, /logout, /break, /validate-break and /calculate handlers    *)
(* and the time_entries collection they share.                             *)
(*                                                                         *)
(* Units.  A datetime is the number of milliseconds since midnight of a    *)
(* reference day, 2025-08-23 (09:00 of that day is At(9, 0, 0) =           *)
(* 32400000, a time of the day before is negative).  The datetimes of the  *)
(* model are those of a whole number of milliseconds, which are the ones   *)
(* the store keeps; a datetime with a finer fraction is not among the      *)
(* inputs.  Python's None is None.  Every quantity the code holds in hours as a     *)
(* float (total_logged_hours, productive, final_hours) is held here in     *)
(* milliseconds, i.e. multiplied by MS_PER_HOUR, so that 8.75 hours is     *)
(* 31500000; minutes stay minutes.                                         *)
(* A string built by concatenation (the scenario) is the sequence of its   *)
(* parts.                                                                  *)
(***************************************************************************)
EXTENDS Integers, Sequences, FiniteSets, TLC

VARIABLES
    store,         \* the time_entries collection: the documents of today, in insertion order
    unique_index,  \* whether create_indexes built the unique (emp_id, date) index
    log,           \* history: the direct calls (merge, delete, calculate) started so far
    entry,         \* the session snapshot handed to calculate_work_hours: <<>> or <<te>>
    result,        \* what calculate_work_hours returned for it: <<>> or <<r>>
    pc,            \* per worker: where its request handler is suspended
    req,           \* per worker: the handler's locals, and its response once it returned
    nreq           \* requests accepted so far

vars == <<store, unique_index, log, entry, result, pc, req, nreq>>

----------------------------------------------------------------------------
(* Policy constants, src/app/services/time_calculator.py:7-10 *)
STANDARD_WORK_HOURS == 9
MANDATORY_BREAK_MINUTES == 30
MAX_BIO_BREAK_MINUTES == 30
DEFAULT_LOGOUT_HOUR == 18

MS_PER_SECOND == 1000
MS_PER_MINUTE == 60 * MS_PER_SECOND
MS_PER_HOUR == 60 * MS_PER_MINUTE
MS_PER_DAY == 24 * MS_PER_HOUR

(* datetime(y, m, d, hour, minute, second) of the reference day *)
At(hour, minute, second) ==
    hour * MS_PER_HOUR + minute * MS_PER_MINUTE + second * MS_PER_SECOND

(* Optional[...] = None: a value far below every datetime and every
   duration of the model *)
None == -500000000

BREAK1 == "break1"
BREAK2 == "break2"
BIO == "bio"
BreakType == {BREAK1, BREAK2, BIO}

Max(a, b) == IF a >= b THEN a ELSE b
Min(a, b) == IF a <= b THEN a ELSE b
Abs(a) == IF a >= 0 THEN a ELSE -a

----------------------------------------------------------------------------
(* BreakEntry, src/app/database/models.py:27-50 *)

(* a slip: the validator left out *)
validate_end_time_raises_Never(start_time, end_time) == FALSE

(* validate_end_time: TRUE when construction raises ValueError *)
validate_end_time_raises(start_time, end_time) ==
    end_time # None /\ start_time # None /\ end_time <= start_time

(* calculate_duration: int() truncates; the difference is positive once
   validate_end_time has passed, so truncation is \div *)
calculate_duration(v, start_time, end_time) ==
    IF v # None THEN v
    ELSE IF start_time # None /\ end_time # None /\ end_time > start_time
         THEN (end_time - start_time) \div MS_PER_MINUTE
         ELSE v

(* BreakEntry(...): the constructed entry; callers test
   validate_end_time_raises first *)
BreakEntry(break_type, start_time, end_time, duration_minutes, timezone) ==
    [break_type |-> break_type,
     start_time |-> start_time,
     end_time |-> end_time,
     duration_minutes |-> calculate_duration(duration_minutes, start_time, end_time),
     timezone |-> timezone]

----------------------------------------------------------------------------
(* TimeCalculator.check_overlapping_breaks *)

(* f"{ov_min:.0f}": round half to even of total_seconds() / 60 *)
FormatMinutes(ms) ==
    LET q == ms \div MS_PER_MINUTE
        r == ms % MS_PER_MINUTE
    IN  IF r * 2 < MS_PER_MINUTE THEN q
        ELSE IF r * 2 > MS_PER_MINUTE THEN q + 1
        ELSE IF q % 2 = 0 THEN q ELSE q + 1

IsTimed(b) == b.start_time # None /\ b.end_time # None

(* a slip: intervals that only touch are not skipped *)
Disjoint_Strict(br1, br2) ==
    br1.end_time < br2.start_time \/ br2.end_time < br1.start_time

(* the skip test of the inner loop *)
Disjoint(br1, br2) ==
    br1.end_time <= br2.start_time \/ br2.end_time <= br1.start_time

(* one element of `overlapping`: the message's parts *)
OverlapMessage(breaks, i, j) ==
    LET br1 == breaks[i]
        br2 == breaks[j]
        ov_start == Max(br1.start_time, br2.start_time)
        ov_end == Min(br1.end_time, br2.end_time)
    IN  [type1 |-> br1.break_type, idx1 |-> i,
         type2 |-> br2.break_type, idx2 |-> j,
         ov_min |-> FormatMinutes(ov_end - ov_start)]

(* all (i, j) in the enumeration order of the two nested loops *)
PairOrder(n) ==
    [k \in 1..(n * n) |-> <<((k - 1) \div n) + 1, ((k - 1) % n) + 1>>]

check_overlapping_breaks(breaks) ==
    LET n == Len(breaks)
        hit(p) == /\ p[1] < p[2]
                  /\ IsTimed(breaks[p[1]])
                  /\ IsTimed(breaks[p[2]])
                  /\ ~Disjoint(breaks[p[1]], breaks[p[2]])
        found == SelectSeq(PairOrder(n), hit)
        overlapping == [k \in 1..Len(found) |->
                           OverlapMessage(breaks, found[k][1], found[k][2])]
    IN  IF overlapping # <<>>
        THEN [has_overlap |-> TRUE, details |-> overlapping]
        ELSE [has_overlap |-> FALSE, details |-> <<>>]

handle_overlapping_breaks(breaks) ==
    LET r == check_overlapping_breaks(breaks)
    IN  [has_overlaps |-> r.has_overlap,
         overlap_details |-> r.details,
         adjustments_made |-> <<>>]

----------------------------------------------------------------------------
(* TimeCalculator.calculate_work_hours *)

(* br.duration_minutes or 0 *)
DurOrZero(br) == IF br.duration_minutes = None THEN 0 ELSE br.duration_minutes

RECURSIVE SumDur(_, _)
(* sum of `dur` over the entries of `breaks` whose kind is in `kinds` *)
SumDur(breaks, kinds) ==
    IF breaks = <<>> THEN 0
    ELSE (IF Head(breaks).break_type \in kinds THEN DurOrZero(Head(breaks)) ELSE 0)
         + SumDur(Tail(breaks), kinds)

RECURSIVE LastDur(_, _)
(* b1_min / b2_min: the last entry of the kind wins, 0 when there is none *)
LastDur(breaks, kind) ==
    IF breaks = <<>> THEN 0
    ELSE IF breaks[Len(breaks)].break_type = kind THEN DurOrZero(breaks[Len(breaks)])
    ELSE LastDur(SubSeq(breaks, 1, Len(breaks) - 1), kind)

(* a slip: the last Bio entry alone, as for break1 and break2 *)
BioMinutes_LastOnly(breaks) == LastDur(breaks, BIO)

(* bio_min: bio_min += dur over every Bio entry *)
BioMinutes(breaks) == SumDur(breaks, {BIO})

(* details["bio_breaks"]: the durations keyed bio_break_1, bio_break_2, ... *)
BioBreaks(breaks) ==
    LET bios == SelectSeq(breaks, LAMBDA b : b.break_type = BIO)
    IN  [k \in 1..Len(bios) |-> DurOrZero(bios[k])]

(* details["mandatory_breaks"] as a set of <<key, value>> *)
MandatoryBreaks(breaks) ==
    {<<k, LastDur(breaks, k)>> : k \in {t \in {BREAK1, BREAK2} :
                                          \E i \in 1..Len(breaks) : breaks[i].break_type = t}}

(* a slip: 0 <= actual, so an absent break earns the whole allotment *)
_adj_ZeroEarns(actual, label) ==
    IF actual > MANDATORY_BREAK_MINUTES
    THEN [value |-> -(actual - MANDATORY_BREAK_MINUTES),
          adjustments |-> {<<label, "excess", -(actual - MANDATORY_BREAK_MINUTES)>>}]
    ELSE IF 0 <= actual /\ actual < MANDATORY_BREAK_MINUTES
    THEN [value |-> MANDATORY_BREAK_MINUTES - actual,
          adjustments |-> {<<label, "unused", MANDATORY_BREAK_MINUTES - actual>>}]
    ELSE [value |-> 0, adjustments |-> {}]

(* the nested _adj(actual, label): the value returned and the entries it
   writes into details["adjustments"] *)
_adj(actual, label) ==
    IF actual > MANDATORY_BREAK_MINUTES
    THEN [value |-> -(actual - MANDATORY_BREAK_MINUTES),
          adjustments |-> {<<label, "excess", -(actual - MANDATORY_BREAK_MINUTES)>>}]
    ELSE IF 0 < actual /\ actual < MANDATORY_BREAK_MINUTES
    THEN [value |-> MANDATORY_BREAK_MINUTES - actual,
          adjustments |-> {<<label, "unused", MANDATORY_BREAK_MINUTES - actual>>}]
    ELSE [value |-> 0, adjustments |-> {}]

(* the effective logout: login_time.replace(hour=18, minute=0, second=0)
   keeps the login's date and its microsecond *)
DefaultLogout(login_time) ==
    (login_time \div MS_PER_DAY) * MS_PER_DAY
        + DEFAULT_LOGOUT_HOUR * MS_PER_HOUR
        + (login_time % MS_PER_SECOND)

EffectiveLogout(te) ==
    IF te.logout_time # None THEN te.logout_time ELSE DefaultLogout(te.login_time)

(* abs(total_logged_hours - STANDARD_WORK_HOURS) < 0.5, in milliseconds *)
IsFullDay(total_logged) ==
    2 * Abs(total_logged - STANDARD_WORK_HOURS * MS_PER_HOUR) < MS_PER_HOUR

(* a slip: the min(base_hours, ...) cap left out *)
FullDayBranch_NoCap(b1_min, b2_min, bio_min) ==
    LET base_hours == STANDARD_WORK_HOURS * MS_PER_HOUR
        a1 == _adj(b1_min, BREAK1)
        a2 == _adj(b2_min, BREAK2)
        bonus_min == a1.value + a2.value
        bio_over == bio_min > MAX_BIO_BREAK_MINUTES
        penalty_min == IF bio_over THEN bio_min - MAX_BIO_BREAK_MINUTES ELSE 0
        bio_adj == IF bio_over
                   THEN {<<BIO, "excess", -(bio_min - MAX_BIO_BREAK_MINUTES)>>}
                   ELSE {}
    IN  [penalty_min |-> penalty_min,
         adjustments |-> a1.adjustments \cup a2.adjustments \cup bio_adj,
         final_hours |-> Max(0, base_hours - penalty_min * MS_PER_MINUTE
                                           + bonus_min * MS_PER_MINUTE)]

(* the full-day branch: penalty_min, bonus_min, adjustments, final_hours *)
FullDayBranch(b1_min, b2_min, bio_min) ==
    LET base_hours == STANDARD_WORK_HOURS * MS_PER_HOUR
        a1 == _adj(b1_min, BREAK1)
        a2 == _adj(b2_min, BREAK2)
        bonus_min == a1.value + a2.value
        bio_over == bio_min > MAX_BIO_BREAK_MINUTES
        penalty_min == IF bio_over THEN bio_min - MAX_BIO_BREAK_MINUTES ELSE 0
        bio_adj == IF bio_over
                   THEN {<<BIO, "excess", -(bio_min - MAX_BIO_BREAK_MINUTES)>>}
                   ELSE {}
    IN  [penalty_min |-> penalty_min,
         adjustments |-> a1.adjustments \cup a2.adjustments \cup bio_adj,
         final_hours |-> Max(0, Min(base_hours,
                             base_hours - penalty_min * MS_PER_MINUTE
                                        + bonus_min * MS_PER_MINUTE))]

(* one "if x_min > cap" block of the partial-day branch *)
ExcessPenalty(label, minutes, cap) ==
    IF minutes > cap
    THEN [extra |-> minutes - cap,
          adjustments |-> {<<label, "excess_penalty", -(minutes - cap)>>}]
    ELSE [extra |-> 0, adjustments |-> {}]

(* a slip: unused mandatory-break minutes credited as in the full day *)
PartialDayBranch_WithBonus(total_logged, total_break_min, b1_min, b2_min, bio_min) ==
    LET productive == total_logged - total_break_min * MS_PER_MINUTE
        p1 == ExcessPenalty(BREAK1, b1_min, MANDATORY_BREAK_MINUTES)
        p2 == ExcessPenalty(BREAK2, b2_min, MANDATORY_BREAK_MINUTES)
        p3 == ExcessPenalty(BIO, bio_min, MAX_BIO_BREAK_MINUTES)
        penalty_min == p1.extra + p2.extra + p3.extra
        bonus_min == Max(0, _adj(b1_min, BREAK1).value)
                     + Max(0, _adj(b2_min, BREAK2).value)
    IN  [penalty_min |-> penalty_min,
         adjustments |-> p1.adjustments \cup p2.adjustments \cup p3.adjustments,
         final_hours |-> Max(0, productive
                                 + (bonus_min - penalty_min) * MS_PER_MINUTE)]

(* the partial-day branch *)
PartialDayBranch(total_logged, total_break_min, b1_min, b2_min, bio_min) ==
    LET productive == total_logged - total_break_min * MS_PER_MINUTE
        p1 == ExcessPenalty(BREAK1, b1_min, MANDATORY_BREAK_MINUTES)
        p2 == ExcessPenalty(BREAK2, b2_min, MANDATORY_BREAK_MINUTES)
        p3 == ExcessPenalty(BIO, bio_min, MAX_BIO_BREAK_MINUTES)
        penalty_min == p1.extra + p2.extra + p3.extra
    IN  [penalty_min |-> penalty_min,
         adjustments |-> p1.adjustments \cup p2.adjustments \cup p3.adjustments,
         final_hours |-> Max(0, productive - penalty_min * MS_PER_MINUTE)]

(* a slip: Absent only when logout is missing too *)
IsAbsent_NeedsNoLogout(te) == te.login_time = None /\ te.logout_time = None

(* if not time_entry.login_time *)
IsAbsent(te) == te.login_time = None

(* the two closing ifs that set the scenario *)
Scenario(logout_present, penalty_min, has_overlaps) ==
    LET s0 == IF logout_present THEN "Calculation" ELSE "Emp forgot to logout"
        s1 == IF penalty_min # 0 THEN "Emp exceeds break" ELSE s0
    IN  IF has_overlaps THEN <<s1, " with overlapping breaks">> ELSE <<s1>>

calculate_work_hours(te) ==
    IF IsAbsent(te)
    THEN [final_hours |-> 0,
          details |-> [error |-> "No login time recorded"],
          scenario |-> <<"Absent">>]
    ELSE
    LET logout_time == EffectiveLogout(te)
        total_logged == logout_time - te.login_time
        is_full_day == IsFullDay(total_logged)
        ov == handle_overlapping_breaks(te.breaks)
        total_break_min == SumDur(te.breaks, BreakType)
        b1_min == LastDur(te.breaks, BREAK1)
        b2_min == LastDur(te.breaks, BREAK2)
        bio_min == BioMinutes(te.breaks)
        br == IF is_full_day
              THEN FullDayBranch(b1_min, b2_min, bio_min)
              ELSE PartialDayBranch(total_logged, total_break_min, b1_min, b2_min, bio_min)
    IN  [final_hours |-> br.final_hours,
         details |-> [total_logged_hours |-> total_logged,
                      is_full_workday |-> is_full_day,
                      login_time |-> te.login_time,
                      logout_time |-> logout_time,
                      mandatory_breaks |-> MandatoryBreaks(te.breaks),
                      bio_breaks |-> BioBreaks(te.breaks),
                      adjustments |-> br.adjustments,
                      overlap_handling |-> ov,
                      total_break_minutes |-> total_break_min,
                      final_work_hours |-> br.final_hours],
         scenario |-> Scenario(te.logout_time # None, br.penalty_min, ov.has_overlaps)]

----------------------------------------------------------------------------
(* TimeEntry, src/app/database/models.py:52-64.  The date of every document
   is today: create_or_update_session and get_current_session only ever
   use datetime.now().date(). *)
TimeEntry(emp_id, login_time, logout_time, breaks, timezone, ip_address, location) ==
    [emp_id |-> emp_id,
     login_time |-> login_time,
     logout_time |-> logout_time,
     breaks |-> breaks,
     timezone |-> timezone,
     ip_address |-> ip_address,
     location |-> location]

----------------------------------------------------------------------------
(* TimeEntryRepository *)

(* find_one: the first document of the key, <<>> for None *)
get_time_entry(coll, emp_id) ==
    LET hits == SelectSeq(coll, LAMBDA d : d.emp_id = emp_id)
    IN  IF hits = <<>> THEN <<>> ELSE <<Head(hits)>>

(* index of the first document of the key, 0 when there is none *)
FirstIndex(coll, emp_id) ==
    IF \E i \in 1..Len(coll) : coll[i].emp_id = emp_id
    THEN CHOOSE i \in 1..Len(coll) :
             /\ coll[i].emp_id = emp_id
             /\ \A j \in 1..(i - 1) : coll[j].emp_id # emp_id
    ELSE 0

(* find_one_and_update with $set of every field but id and created_at:
   the collection afterwards (unchanged when no document matches) *)
update_time_entry(coll, emp_id, update_data) ==
    LET i == FirstIndex(coll, emp_id)
    IN  IF i = 0 THEN coll ELSE [coll EXCEPT ![i] = update_data]

(* insert_one raises DuplicateKeyError under the unique index *)
create_time_entry_raises(coll, uidx, time_entry) ==
    uidx /\ \E i \in 1..Len(coll) : coll[i].emp_id = time_entry.emp_id

create_time_entry(coll, uidx, time_entry) ==
    IF create_time_entry_raises(coll, uidx, time_entry)
    THEN coll
    ELSE Append(coll, time_entry)

(* delete_one: the collection without the first document of the key *)
delete_time_entry(coll, emp_id) ==
    LET i == FirstIndex(coll, emp_id)
    IN  IF i = 0 THEN coll
        ELSE [k \in 1..(Len(coll) - 1) |-> IF k < i THEN coll[k] ELSE coll[k + 1]]

----------------------------------------------------------------------------
(* SessionManager.create_or_update_session.
   kwargs is the ordered sequence of <<key, value>> the caller passes;
   ctx is what lines 32-39 resolve: [timezone, location, ip_address]. *)

(* request = None *)
NoRequest == [timezone |-> "UTC", location |-> None, ip_address |-> None]

(* a slip: the scan for an entry of the same kind left out *)
ReplaceOrAppend_AlwaysAppend(breaks, new_break) == Append(breaks, new_break)

(* lines 56-63: replace the first entry of the kind, else append *)
ReplaceOrAppend(breaks, new_break) ==
    IF \E i \in 1..Len(breaks) : breaks[i].break_type = new_break.break_type
    THEN LET i == CHOOSE k \in 1..Len(breaks) :
                      /\ breaks[k].break_type = new_break.break_type
                      /\ \A j \in 1..(k - 1) : breaks[j].break_type # new_break.break_type
         IN  [breaks EXCEPT ![i] = new_break]
    ELSE Append(breaks, new_break)

RECURSIVE MergeBreaks(_, _)
(* lines 49-63: for new_break in value *)
MergeBreaks(breaks, value) ==
    IF value = <<>> THEN breaks
    ELSE MergeBreaks(
             IF Head(value).break_type = BIO
             THEN Append(breaks, Head(value))
             ELSE ReplaceOrAppend(breaks, Head(value)),
             Tail(value))

(* a slip: logout_time written over login_time *)
SetAttr_LogoutOverLogin(session, key, value) ==
    CASE key = "login_time"  -> [session EXCEPT !.login_time = value]
      [] key = "logout_time" -> [session EXCEPT !.login_time = value]
      [] key = "breaks"      -> [session EXCEPT !.breaks = value]

(* setattr(existing_session, key, value) *)
SetAttr(session, key, value) ==
    CASE key = "login_time"  -> [session EXCEPT !.login_time = value]
      [] key = "logout_time" -> [session EXCEPT !.logout_time = value]
      [] key = "breaks"      -> [session EXCEPT !.breaks = value]

RECURSIVE FoldKwargs(_, _)
(* lines 46-65: for key, value in kwargs.items() *)
FoldKwargs(session, kwargs) ==
    IF kwargs = <<>> THEN session
    ELSE LET key == Head(kwargs)[1]
             value == Head(kwargs)[2]
         IN  FoldKwargs(
                 IF key = "breaks" /\ value # <<>>
                 THEN [session EXCEPT !.breaks = MergeBreaks(session.breaks, value)]
                 ELSE SetAttr(session, key, value),
                 Tail(kwargs))

(* lines 67-72: timezone always, location and ip only when truthy *)
RefreshContext(session, ctx) ==
    [session EXCEPT
        !.timezone = ctx.timezone,
        !.location = IF ctx.location # None THEN ctx.location ELSE @,
        !.ip_address = IF ctx.ip_address # None THEN ctx.ip_address ELSE @]

(* a slip: a login time already recorded is kept *)
UpdateData_KeepLogin(existing_session, kwargs, ctx) ==
    [RefreshContext(FoldKwargs(existing_session, kwargs), ctx) EXCEPT
        !.login_time = IF existing_session.login_time # None
                       THEN existing_session.login_time ELSE @]

(* lines 44-81: update_data for an existing session *)
UpdateData(existing_session, kwargs, ctx) ==
    RefreshContext(FoldKwargs(existing_session, kwargs), ctx)

RECURSIVE SetAll(_, _)
(* {..., **kwargs}: each key of kwargs replaces the default of session_data *)
SetAll(session, kwargs) ==
    IF kwargs = <<>> THEN session
    ELSE SetAll(SetAttr(session, Head(kwargs)[1], Head(kwargs)[2]), Tail(kwargs))

(* lines 86-96: the TimeEntry built from session_data *)
NewSession(emp_id, kwargs, ctx) ==
    SetAll(TimeEntry(emp_id, None, None, <<>>, ctx.timezone, ctx.ip_address, ctx.location),
           kwargs)

(* lines 83 and 97: the write that follows a fetch that returned `existing`
   (<<>> for None), applied to the collection as it is at the write *)
PersistMerge(coll, uidx, emp_id, existing, kwargs, ctx) ==
    IF existing # <<>>
    THEN update_time_entry(coll, emp_id, UpdateData(existing[1], kwargs, ctx))
    ELSE create_time_entry(coll, uidx, NewSession(emp_id, kwargs, ctx))

(* a whole call with no other call in between: fetch, fold, persist *)
create_or_update_session(coll, uidx, emp_id, kwargs, ctx) ==
    PersistMerge(coll, uidx, emp_id, get_time_entry(coll, emp_id), kwargs, ctx)

----------------------------------------------------------------------------
(* Bounds and input sets *)

MaxBio == 2      \* Bio entries of a session handed to the calculator
MaxMerges == 4   \* direct calls of one run of SpecMerge
MaxRoundTripCalls == 5   \* direct calls of one run of SpecRoundTrip
MaxRequests == 3 \* requests of one run of Spec

(* the workers that run request handlers concurrently *)
Procs == {1, 2}

(* a worker that has handled no request yet *)
NoReq == [op |-> "none"]

T0900 == At(9, 0, 0)
T1800 == At(18, 0, 0)

Emp == "Emp123"

(* what the resolver can return for a request: the default timezone with no
   location (failure), or a resolved timezone with its location *)
ResolvedContexts ==
    {[timezone |-> "UTC", location |-> None, ip_address |-> 1],
     [timezone |-> "Asia/Kolkata", location |-> 1, ip_address |-> 1]}

(* the zones the resolver can name to the /login handler *)
ResolvedZones == {"UTC", "Asia/Kolkata", "America/New_York"}

MergeContexts == {NoRequest} \cup ResolvedContexts

Untimed(kind, d) == BreakEntry(kind, None, None, d, "UTC")

(* 12:00-12:30 and 12:15-12:25 *)
TimedBreak1 == BreakEntry(BREAK1, At(12, 0, 0), At(12, 30, 0), None, "UTC")
TimedBio == BreakEntry(BIO, At(12, 15, 0), At(12, 25, 0), None, "UTC")

(* duration_minutes is an unvalidated Optional[int]: absent, zero, negative,
   under, at and over the allotment, and longer than the whole day *)
MandatoryDurations == {None, 0, -1, 20, 30, 35, 40, 600}
BioEntries == {Untimed(BIO, d) : d \in {0, -1, 10, 20, 30, 35}} \cup {TimedBio}
Break1Options ==
    {<<>>, <<TimedBreak1>>} \cup {<<Untimed(BREAK1, d)>> : d \in MandatoryDurations}
Break2Options ==
    {<<>>} \cup {<<Untimed(BREAK2, d)>> : d \in MandatoryDurations}

SeqsUpTo(S, n) == UNION {[1..k -> S] : k \in 0..n}

(* 18:00, 17:30:01 and 17:30:00 (either side of the full-day band), 13:00,
   and 08:00 (before the login) *)
CalcLogouts ==
    {None, T1800, At(17, 30, 1), At(17, 30, 0), At(13, 0, 0), At(8, 0, 0)}

CalcEntries(bios) ==
    {TimeEntry(Emp, li, lo, b1 \o b2 \o bios, "UTC", None, None) :
        li \in {None, T0900}, lo \in CalcLogouts,
        b1 \in Break1Options, b2 \in Break2Options}

(* sessions left open: logins at 08:30:01 (just inside the full-day band
   against 18:00), at 08:30:00.500 (a login stamped by datetime.now carries a
   fraction of a second), at 19:00 (after 18:00), and at 10:00 of the
   following day *)
ForgotLogins ==
    {At(8, 30, 1), At(8, 30, 0) + 500, At(19, 0, 0), MS_PER_DAY + At(10, 0, 0)}

ForgotEntries(bios) ==
    {TimeEntry(Emp, li, None, b1 \o b2 \o bios, "UTC", None, None) :
        li \in ForgotLogins,
        b1 \in Break1Options, b2 \in Break2Options}

(* merger calls carrying a single break *)
MergeKwargs ==
    {<<<<"breaks", <<b>>>>>> :
        b \in {Untimed(BREAK1, 30), Untimed(BREAK2, 30), Untimed(BIO, 10),
               Untimed(BREAK1, 40)}}

(* the five events of the round trip: login 09:00, logout 18:00, Break1 30,
   Break2 30, Bio 10 *)
RoundTripKwargs ==
    {<<<<"login_time", T0900>>>>, <<<<"logout_time", T1800>>>>}
    \cup {<<<<"breaks", <<b>>>>>> :
            b \in {Untimed(BREAK1, 30), Untimed(BREAK2, 30), Untimed(BIO, 10)}}

----------------------------------------------------------------------------
(* Calculator alone: the session is drawn, calculate_work_hours is applied *)

InitCalc ==
    /\ store = <<>>
    /\ unique_index = TRUE
    /\ log = <<>>
    /\ \E bios \in SeqsUpTo(BioEntries, MaxBio) :
           entry \in {<<te>> : te \in CalcEntries(bios) \cup ForgotEntries(bios)}
    /\ result = <<>>
    /\ pc = [p \in Procs |-> "idle"]
    /\ req = [p \in Procs |-> NoReq]
    /\ nreq = 0

ComputeHours ==
    /\ entry # <<>>
    /\ result = <<>>
    /\ result' = <<calculate_work_hours(entry[1])>>
    /\ UNCHANGED <<store, unique_index, log, entry, pc, req, nreq>>

NextCalc == ComputeHours

SpecCalc == InitCalc /\ [][NextCalc]_vars

----------------------------------------------------------------------------
(* Detector alone: a break list is drawn, check_overlapping_breaks is applied *)

MaxOverlapBreaks == 3

(* 12:00-12:30, 12:15-12:25, 12:30-13:00 (touches the first), 12:29:50-12:30:10
   (crosses the first and the third by ten seconds each), and entries with no
   times, a start only and an end only *)
OverlapBreaks ==
    {TimedBreak1, TimedBio,
     BreakEntry(BREAK2, At(12, 30, 0), At(13, 0, 0), None, "UTC"),
     BreakEntry(BIO, At(12, 29, 50), At(12, 30, 10), None, "UTC"),
     Untimed(BIO, 10),
     BreakEntry(BIO, At(12, 13, 20), None, 5, "UTC"),
     BreakEntry(BIO, None, At(12, 21, 40), 5, "UTC")}

InitOverlap ==
    /\ store = <<>>
    /\ unique_index = TRUE
    /\ log = <<>>
    /\ entry \in {<<TimeEntry(Emp, T0900, None, breaks, "UTC", None, None)>> :
                     breaks \in SeqsUpTo(OverlapBreaks, MaxOverlapBreaks)}
    /\ result = <<>>
    /\ pc = [p \in Procs |-> "idle"]
    /\ req = [p \in Procs |-> NoReq]
    /\ nreq = 0

DetectOverlaps ==
    /\ entry # <<>>
    /\ result = <<>>
    /\ result' = <<check_overlapping_breaks(entry[1].breaks)>>
    /\ UNCHANGED <<store, unique_index, log, entry, pc, req, nreq>>

NextOverlap == DetectOverlaps

SpecOverlap == InitOverlap /\ [][NextOverlap]_vars

----------------------------------------------------------------------------
(* Direct calls of the merger and the repository, then the report *)

(* connect_to_mongo has returned: create_indexes has built the unique index
   on (emp_id, date), or create_index raised and only a warning was printed *)
Init ==
    /\ store = <<>>
    /\ unique_index \in BOOLEAN
    /\ log = <<>>
    /\ entry = <<>>
    /\ result = <<>>
    /\ pc = [p \in Procs |-> "idle"]
    /\ req = [p \in Procs |-> NoReq]
    /\ nreq = 0

(* no handler or call is in flight *)
AllIdle == \A p \in Procs : pc[p] = "idle"

(* the record the history keeps of a call; alone: nothing else in flight
   when it started *)
LogEntry(call, kwargs, alone) == [call |-> call, kwargs |-> kwargs, alone |-> alone]

(* calculate_hours, routers/tracking.py:136-142: 404 when there is no
   session of today, else calculate_work_hours on the persisted session *)
Calculate ==
    /\ result = <<>>
    /\ LET session == get_time_entry(store, Emp)
       IN  IF session = <<>>
           THEN /\ entry' = entry
                /\ result' = <<[status |-> 404,
                                message |-> "No session found for employee"]>>
           ELSE /\ entry' = session
                /\ result' = <<calculate_work_hours(session[1])>>
    /\ log' = Append(log, LogEntry("calculate", <<>>, AllIdle))
    /\ UNCHANGED <<store, unique_index, pc, req, nreq>>

----------------------------------------------------------------------------
(* Few merger calls, with repeated and changed login and logout times *)

MaxShortMerges == 2

T1000 == At(10, 0, 0)
T1700 == At(17, 0, 0)

ShortKwargs ==
    {<<<<"login_time", T0900>>>>, <<<<"login_time", T1000>>>>,
     <<<<"logout_time", T1800>>>>, <<<<"logout_time", T1700>>>>,
     <<<<"breaks", <<Untimed(BIO, 10)>>>>>>, <<<<"breaks", <<Untimed(BREAK1, 30)>>>>>>}


----------------------------------------------------------------------------
(* The request handlers, routers/tracking.py.  A handler runs without
   interruption between two awaited store calls; each action below is one
   store call together with the handler code that follows it up to the next
   store call.  The resolver's requests.get blocks without suspending, so a
   resolver call belongs to the step it is made in; /login calls the resolver
   twice (the handler, then the merger) and the two answers may differ. *)

(* pytz.timezone(tz): the zone's offset from UTC on the reference day, for
   the zones of the seeded sessions (main.py:67-104) *)
UtcOffset(tz) ==
    CASE tz = "UTC" -> 0
      [] tz = "Asia/Kolkata" -> At(5, 30, 0)
      [] tz = "Europe/London" -> At(1, 0, 0)
      [] tz = "America/New_York" -> -At(4, 0, 0)

(* a datetime is its reading t with its tzinfo: None for a naive one, else
   the UTC offset it carries; an absent Optional[datetime] has t = None *)
Naive(t) == [t |-> t, tzinfo |-> None]
Aware(t, offset) == [t |-> t, tzinfo |-> offset]

(* datetime.now(tz), the clock reading now in UTC *)
get_current_time_in_timezone(now, timezone_str) ==
    Aware(now + UtcOffset(timezone_str), UtcOffset(timezone_str))

(* a naive datetime is localized in user_tz, an aware one keeps its own
   offset; then astimezone(UTC) and the tzinfo is dropped *)
_to_utc_naive(dt, user_tz) ==
    IF dt.tzinfo = None THEN dt.t - UtcOffset(user_tz) ELSE dt.t - dt.tzinfo

(* int(x / 60) truncates toward zero *)
TruncMinutes(ms) ==
    IF ms >= 0 THEN ms \div MS_PER_MINUTE
    ELSE -((-ms) \div MS_PER_MINUTE)

(* the break requests of the clients: 12:00-12:30 and 12:15-12:25 local time,
   two with a duration only, and one that ends when it starts (13:00) *)
BreakRequests ==
    {[break_type |-> BREAK1, start_time |-> At(12, 0, 0), end_time |-> At(12, 30, 0), duration_minutes |-> None],
     [break_type |-> BIO, start_time |-> At(12, 15, 0), end_time |-> At(12, 25, 0), duration_minutes |-> None],
     [break_type |-> BIO, start_time |-> None, end_time |-> None, duration_minutes |-> 10],
     [break_type |-> BREAK1, start_time |-> None, end_time |-> None, duration_minutes |-> 40],
     [break_type |-> BIO, start_time |-> At(13, 0, 0), end_time |-> At(13, 0, 0), duration_minutes |-> None]}

(* the requests to /validate-break: 12:15-12:25, and 13:00-12:50 *)
ValidateRequests ==
    {[break_type |-> BIO, start_time |-> At(12, 15, 0), end_time |-> At(12, 25, 0), duration_minutes |-> None],
     [break_type |-> BIO, start_time |-> At(13, 0, 0), end_time |-> At(12, 50, 0), duration_minutes |-> None]}

(* validate_break_timing, lines 195-205, once the session is fetched *)
validate_break_body(session, request) ==
    LET user_tz == session.timezone
        start_utc == IF request.start_time # None
                     THEN _to_utc_naive(Naive(request.start_time), user_tz) ELSE None
        end_utc == IF request.end_time # None
                   THEN _to_utc_naive(Naive(request.end_time), user_tz) ELSE None
        temp_entry == BreakEntry(request.break_type, start_utc, end_utc,
                                 request.duration_minutes, "UTC")
        ov == check_overlapping_breaks(Append(session.breaks, temp_entry))
    IN  IF validate_end_time_raises(start_utc, end_utc)
        THEN [status |-> 500, message |-> "End time must be after start time"]
        ELSE [status |-> 200, valid |-> ~ov.has_overlap,
              overlap_detected |-> ov.has_overlap, overlap_details |-> ov.details]

(* record_break, lines 84-119, once the session is fetched: what the handler
   does next and the BreakEntry it built *)
record_break_body(session, request) ==
    LET user_tz == session.timezone
        start_utc == IF request.start_time # None
                     THEN _to_utc_naive(Naive(request.start_time), user_tz) ELSE None
        end_utc == IF request.end_time # None
                   THEN _to_utc_naive(Naive(request.end_time), user_tz) ELSE None
        duration == IF start_utc # None /\ end_utc # None /\ request.duration_minutes = None
                    THEN TruncMinutes(end_utc - start_utc)
                    ELSE request.duration_minutes
        break_entry == BreakEntry(request.break_type, start_utc, end_utc, duration, user_tz)
        ov == check_overlapping_breaks(Append(session.breaks, break_entry))
    IN  IF validate_end_time_raises(start_utc, end_utc)
        THEN [next |-> "raise", status |-> 500, message |-> "End time must be after start time"]
        ELSE IF /\ break_entry.break_type # BIO
                /\ \E i \in 1..Len(session.breaks) :
                       session.breaks[i].break_type = break_entry.break_type
        THEN [next |-> "raise", status |-> 400, message |-> "already recorded for today",
              break_entry |-> break_entry]
        ELSE IF ov.has_overlap
        THEN [next |-> "return", status |-> 200,
              message |-> "Break recorded with overlap warning",
              warning |-> ov.details, break_entry |-> break_entry]
        ELSE [next |-> "merge", status |-> 200, message |-> "Break recorded successfully",
              break_entry |-> break_entry]

(* the handler of worker p returns or raises: r is kept as its response *)
Return(p, r) ==
    /\ req' = [req EXCEPT ![p] = r]
    /\ pc' = [pc EXCEPT ![p] = "idle"]

Accept(p) ==
    /\ pc[p] = "idle"
    /\ nreq < MaxRequests
    /\ nreq' = nreq + 1

(* POST /login up to the merger's get_time_entry: user_tz is the handler's
   answer from the resolver (line 34), ctx the merger's (session_manager.py:39);
   an absent login_time is replaced by the clock's reading *)
StartLogin(p, login_time, now, user_tz, ctx) ==
    /\ Accept(p)
    /\ LET given == IF login_time.t = None
                    THEN get_current_time_in_timezone(now, user_tz)
                    ELSE login_time
       IN  req' = [req EXCEPT ![p] =
               [op |-> "login", ctx |-> ctx,
                kwargs |-> <<<<"login_time", _to_utc_naive(given, user_tz)>>>>]]
    /\ pc' = [pc EXCEPT ![p] = "merge_fetch"]
    /\ UNCHANGED <<store, unique_index, log, entry, result>>

(* POST /logout up to get_current_session *)
StartLogout(p, logout_time, ctx) ==
    /\ Accept(p)
    /\ req' = [req EXCEPT ![p] = [op |-> "logout", ctx |-> ctx, request |-> logout_time]]
    /\ pc' = [pc EXCEPT ![p] = "logout_fetch"]
    /\ UNCHANGED <<store, unique_index, log, entry, result>>

(* POST /break up to get_current_session *)
StartBreak(p, request, ctx) ==
    /\ Accept(p)
    /\ req' = [req EXCEPT ![p] = [op |-> "break", ctx |-> ctx, request |-> request]]
    /\ pc' = [pc EXCEPT ![p] = "break_fetch"]
    /\ UNCHANGED <<store, unique_index, log, entry, result>>

----------------------------------------------------------------------------
(* Break durations alone: a timed break with no duration is drawn and built
   directly and by record_break *)

MaxSpanSeconds == 150

(* a break starting at 12:00 local time and lasting 1..MaxSpanSeconds seconds,
   submitted to a session of either timezone *)
InitDuration ==
    /\ store = <<>>
    /\ unique_index = TRUE
    /\ log = <<>>
    /\ entry \in {<<[session |-> TimeEntry(Emp, T0900, None, <<>>, tz, None, None),
                     request |-> [break_type |-> BIO, start_time |-> At(12, 0, 0),
                                  end_time |-> At(12, 0, span),
                                  duration_minutes |-> None]]>> :
                     tz \in {"UTC", "Asia/Kolkata", "Europe/London", "America/New_York"},
                     span \in 1..MaxSpanSeconds}
    /\ result = <<>>
    /\ pc = [p \in Procs |-> "idle"]
    /\ req = [p \in Procs |-> NoReq]
    /\ nreq = 0

(* BreakEntry(...) with duration_minutes left out, and record_break's entry *)
BuildBreak ==
    /\ entry # <<>>
    /\ result = <<>>
    /\ result' = <<[direct |-> BreakEntry(entry[1].request.break_type,
                                          entry[1].request.start_time,
                                          entry[1].request.end_time, None, "UTC"),
                    submitted |-> record_break_body(entry[1].session,
                                                    entry[1].request).break_entry]>>
    /\ UNCHANGED <<store, unique_index, log, entry, pc, req, nreq>>

NextDuration == BuildBreak

SpecDuration == InitDuration /\ [][NextDuration]_vars

----------------------------------------------------------------------------
(* POST /validate-break up to get_current_session *)
StartValidate(p, request) ==
    /\ Accept(p)
    /\ req' = [req EXCEPT ![p] = [op |-> "validate", request |-> request]]
    /\ pc' = [pc EXCEPT ![p] = "validate_fetch"]
    /\ UNCHANGED <<store, unique_index, log, entry, result>>

(* validate_break_timing, lines 192-205: the session arrives; 404, a
   validation error, or the verdict; nothing is written *)
ValidateFetch(p) ==
    /\ pc[p] = "validate_fetch"
    /\ LET session == get_time_entry(store, Emp)
       IN  IF session = <<>>
           THEN Return(p, [op |-> "validate", status |-> 404,
                           message |-> "No active session found", session |-> session])
           ELSE Return(p, [op |-> "validate", session |-> session]
                          @@ validate_break_body(session[1], req[p].request))
    /\ UNCHANGED <<store, unique_index, log, entry, result, nreq>>

(* logout, lines 57-66: the session arrives; 404 or on to the merger, an
   absent logout_time replaced by the clock's reading *)
LogoutFetch(p, now) ==
    /\ pc[p] = "logout_fetch"
    /\ LET session == get_time_entry(store, Emp)
       IN  IF session = <<>>
           THEN Return(p, [op |-> "logout", status |-> 404,
                           message |-> "No active session found", session |-> session])
           ELSE LET user_tz == session[1].timezone
                    given == IF req[p].request.t = None
                             THEN get_current_time_in_timezone(now, user_tz)
                             ELSE req[p].request
                IN  /\ req' = [req EXCEPT ![p] =
                           [op |-> "logout", ctx |-> req[p].ctx, session |-> session,
                            kwargs |-> <<<<"logout_time", _to_utc_naive(given, user_tz)>>>>]]
                    /\ pc' = [pc EXCEPT ![p] = "merge_fetch"]
    /\ UNCHANGED <<store, unique_index, log, entry, result, nreq>>

(* record_break, lines 80-119: the session arrives; 404, a validation error,
   400, the overlap warning, or on to the merger *)
BreakFetch(p) ==
    /\ pc[p] = "break_fetch"
    /\ LET session == get_time_entry(store, Emp)
       IN  IF session = <<>>
           THEN Return(p, [op |-> "break", status |-> 404,
                           message |-> "No active session found", session |-> session])
           ELSE LET d == record_break_body(session[1], req[p].request)
                IN  IF d.next = "merge"
                    THEN /\ req' = [req EXCEPT ![p] =
                                [op |-> "break", ctx |-> req[p].ctx, session |-> session,
                                 break_entry |-> d.break_entry,
                                 kwargs |-> <<<<"breaks", <<d.break_entry>>>>>>]]
                         /\ pc' = [pc EXCEPT ![p] = "merge_fetch"]
                    ELSE Return(p, [op |-> "break", session |-> session] @@ d)
    /\ UNCHANGED <<store, unique_index, log, entry, result, nreq>>

(* create_or_update_session, line 42: existing_session arrives *)
MergeFetch(p) ==
    /\ pc[p] = "merge_fetch"
    /\ req' = [req EXCEPT ![p] = [existing |-> get_time_entry(store, Emp)] @@ req[p]]
    /\ pc' = [pc EXCEPT ![p] = "merge_persist"]
    /\ UNCHANGED <<store, unique_index, log, entry, result, nreq>>

(* the message of the handler's final return, whatever the merger handed
   back; a direct call of the merger returns the TimeEntry written, or None
   when find_one_and_update matched no document (repository.py:53-55) *)
SuccessMessage(op, matched) ==
    CASE op = "login" -> "Login successful"
      [] op = "logout" -> "Logout successful"
      [] op = "break" -> "Break recorded successfully"
      [] op = "merge" -> IF matched THEN "TimeEntry" ELSE "None"

(* create_or_update_session, line 83 or 97, and the handler's return *)
MergePersist(p) ==
    /\ pc[p] = "merge_persist"
    /\ LET r == req[p]
           kept == [op |-> r.op, kwargs |-> r.kwargs]
                   @@ (IF r.op \in {"logout", "break"} THEN [session |-> r.session] ELSE <<>>)
                   @@ (IF r.op = "break" THEN [break_entry |-> r.break_entry] ELSE <<>>)
           matched == r.existing = <<>> \/ FirstIndex(store, Emp) # 0
       IN  IF r.existing = <<>>
              /\ create_time_entry_raises(store, unique_index, NewSession(Emp, r.kwargs, r.ctx))
           THEN /\ store' = store
                /\ Return(p, [status |-> 500, message |-> "DuplicateKeyError"] @@ kept)
           ELSE /\ store' = PersistMerge(store, unique_index, Emp, r.existing, r.kwargs, r.ctx)
                /\ Return(p, [status |-> 200, message |-> SuccessMessage(r.op, matched)] @@ kept)
    /\ UNCHANGED <<unique_index, log, entry, result, nreq>>

(* delete_time_entry(emp_id, today), called while the handlers run *)
DeleteEntry ==
    /\ nreq < MaxRequests
    /\ nreq' = nreq + 1
    /\ store' = delete_time_entry(store, Emp)
    /\ log' = Append(log, LogEntry("delete", <<>>, AllIdle))
    /\ UNCHANGED <<unique_index, entry, result, pc, req>>

(* the login_time of a LoginRequest: absent, naive 09:00, or 14:30 carrying
   the offset +05:30 (09:00 UTC); the logout_time of a LogoutRequest likewise
   around 18:00 *)
LoginTimes == {Naive(None), Naive(T0900), Aware(At(14, 30, 0), At(5, 30, 0))}
LogoutTimes == {Naive(None), Naive(T1800), Aware(At(23, 30, 0), At(5, 30, 0))}

Next ==
    \/ \E p \in Procs, login_time \in LoginTimes,
          user_tz \in ResolvedZones, ctx \in ResolvedContexts :
           StartLogin(p, login_time, T0900, user_tz, ctx)
    \/ \E p \in Procs, logout_time \in LogoutTimes, ctx \in ResolvedContexts :
           StartLogout(p, logout_time, ctx)
    \/ \E p \in Procs, ctx \in ResolvedContexts, request \in BreakRequests :
           StartBreak(p, request, ctx)
    \/ \E p \in Procs, request \in ValidateRequests : StartValidate(p, request)
    \/ \E p \in Procs : ValidateFetch(p)
    \/ \E p \in Procs : LogoutFetch(p, T1800)
    \/ \E p \in Procs : BreakFetch(p)
    \/ \E p \in Procs : MergeFetch(p)
    \/ \E p \in Procs : MergePersist(p)
    \/ DeleteEntry

Spec == Init /\ [][Next]_vars

----------------------------------------------------------------------------
(* Direct calls of create_or_update_session and of the repository's
   delete_time_entry, by callers that may overlap: a call suspends at
   get_time_entry (MergeFetch) and at the write (MergePersist) *)

(* create_or_update_session(emp_id, request, **kwargs) up to its
   get_time_entry, while fewer than max calls have been made; the callers
   are interchangeable, the first idle one makes the call *)
StartMerge(p, kwargs, ctx, max) ==
    /\ pc[p] = "idle"
    /\ \A q \in Procs : q < p => pc[q] # "idle"
    /\ Len(log) < max
    /\ result = <<>>
    /\ req' = [req EXCEPT ![p] = [op |-> "merge", ctx |-> ctx, kwargs |-> kwargs]]
    /\ pc' = [pc EXCEPT ![p] = "merge_fetch"]
    /\ log' = Append(log, LogEntry("merge", kwargs, AllIdle))
    /\ UNCHANGED <<store, unique_index, entry, result, nreq>>

(* delete_time_entry(emp_id, today), while fewer than max calls have been made *)
DeleteCall(max) ==
    /\ Len(log) < max
    /\ result = <<>>
    /\ store' = delete_time_entry(store, Emp)
    /\ log' = Append(log, LogEntry("delete", <<>>, AllIdle))
    /\ UNCHANGED <<unique_index, entry, result, pc, req, nreq>>

NextMerge ==
    \/ \E p \in Procs, kwargs \in MergeKwargs :
           StartMerge(p, kwargs, NoRequest, MaxMerges)
    \/ \E p \in Procs : MergeFetch(p)
    \/ \E p \in Procs : MergePersist(p)
    \/ DeleteCall(MaxMerges)

SpecMerge == Init /\ [][NextMerge]_vars

(* the round trip: each of the five events is merged at most once, in any
   order and with any overlap, nothing is deleted, then the report *)
NextRoundTrip ==
    \/ \E p \in Procs, kwargs \in RoundTripKwargs :
           /\ \A i \in 1..Len(log) : log[i].kwargs # kwargs
           /\ StartMerge(p, kwargs, NoRequest, MaxRoundTripCalls)
    \/ \E p \in Procs : MergeFetch(p)
    \/ \E p \in Procs : MergePersist(p)
    \/ Calculate

SpecRoundTrip == Init /\ [][NextRoundTrip]_vars

NextShort ==
    \/ \E p \in Procs, kwargs \in ShortKwargs, ctx \in ResolvedContexts :
           StartMerge(p, kwargs, ctx, MaxShortMerges)
    \/ \E p \in Procs : MergeFetch(p)
    \/ \E p \in Procs : MergePersist(p)
    \/ DeleteCall(MaxShortMerges)

SpecShort == Init /\ [][NextShort]_vars

----------------------------------------------------------------------------
(* Properties of the calculator (SpecCalc) *)

Computed == entry # <<>> /\ result # <<>>
NineHours == STANDARD_WORK_HOURS * MS_PER_HOUR

(* the quantities the properties speak of, read off the input session *)
Excess(minutes, cap) == IF minutes > cap THEN minutes - cap ELSE 0
Unused(minutes, cap) == IF 0 < minutes /\ minutes < cap THEN cap - minutes ELSE 0
Break1Minutes(te) == LastDur(te.breaks, BREAK1)
Break2Minutes(te) == LastDur(te.breaks, BREAK2)
BioSum(te) == SumDur(te.breaks, {BIO})
PenaltyMinutes(te) ==
    Excess(Break1Minutes(te), 30) + Excess(Break2Minutes(te), 30) + Excess(BioSum(te), 30)
BonusMinutes(te) == Unused(Break1Minutes(te), 30) + Unused(Break2Minutes(te), 30)
LoggedTime(te) == EffectiveLogout(te) - te.login_time
FullDay(te) == te.login_time # None /\ 2 * Abs(LoggedTime(te) - NineHours) < MS_PER_HOUR
PartialDay(te) == te.login_time # None /\ ~FullDay(te)

RECURSIVE SumValues(_)
(* the sum of the values of a set of adjustments <<slot, suffix, value>> *)
SumValues(adjs) ==
    IF adjs = {} THEN 0
    ELSE LET a == CHOOSE x \in adjs : TRUE IN a[3] + SumValues(adjs \ {a})

(* C5: with login present, in either branch, any penalty minutes (Break1 > 30,
   Break2 > 30 or total Bio > 30) make the scenario start with
   "Emp exceeds break"; the full day 35/40/30 yields 8.75 h with that label. *)
C5_PenaltyGivesExceedsBreak ==
    (Computed /\ entry[1].login_time # None /\ PenaltyMinutes(entry[1]) > 0)
        => result[1].scenario[1] = "Emp exceeds break"

(* C6: a full-day session's final_hours is clamp(9 - penalties/60 + bonuses/60, 0, 9),
   so it lies between 0 and 9 hours whatever the breaks. *)
C6_FullDayClamp ==
    (Computed /\ FullDay(entry[1])) =>
        /\ result[1].final_hours =
               Max(0, Min(NineHours, NineHours - PenaltyMinutes(entry[1]) * MS_PER_MINUTE
                                               + BonusMinutes(entry[1]) * MS_PER_MINUTE))
        /\ result[1].final_hours >= 0
        /\ result[1].final_hours <= NineHours

(* a full day whose bonuses outweigh its penalties: the cap at 9 h acts *)
C6_Witness ==
    /\ Computed /\ FullDay(entry[1])
    /\ BonusMinutes(entry[1]) > PenaltyMinutes(entry[1])
    /\ result[1].final_hours = NineHours

(* C7: with login absent the result is exactly 0.0 hours, scenario "Absent"
   with no suffix, and nothing else is computed, whatever logout and breaks. *)
C7_AbsentWithoutLogin ==
    (Computed /\ entry[1].login_time = None) =>
        result[1] = [final_hours |-> 0,
                     details |-> [error |-> "No login time recorded"],
                     scenario |-> <<"Absent">>]

(* no login, yet a logout and overlapping breaks *)
C7_Witness ==
    /\ Computed /\ entry[1].login_time = None
    /\ entry[1].logout_time # None
    /\ check_overlapping_breaks(entry[1].breaks).has_overlap

(* what C8 expects in details["adjustments"] for one slot with m minutes *)
ExpectedSlotAdjustments(slot, m) ==
    IF m > 30 THEN {<<slot, "excess", -(m - 30)>>}
    ELSE IF 0 < m /\ m < 30 THEN {<<slot, "unused", 30 - m>>}
    ELSE {}

(* C8: in the full-day branch each of Break1 and Break2, with m minutes, records
   "<slot>_excess" = -(m - 30) when m > 30, "<slot>_unused" = 30 - m when
   0 < m < 30, and nothing when m = 30 or m = 0. *)
C8_SlotAdjustments ==
    (Computed /\ FullDay(entry[1])) =>
        \A slot \in {BREAK1, BREAK2} :
            {a \in result[1].details.adjustments : a[1] = slot}
                = ExpectedSlotAdjustments(slot, LastDur(entry[1].breaks, slot))

(* a full day with Break1 = 40 (-10) and Break2 = 20 (+10) *)
C8_Witness ==
    /\ Computed /\ FullDay(entry[1])
    /\ Break1Minutes(entry[1]) = 40 /\ Break2Minutes(entry[1]) = 20
    /\ <<BREAK1, "excess", -10>> \in result[1].details.adjustments
    /\ <<BREAK2, "unused", 10>> \in result[1].details.adjustments

(* C9: with login present, in either branch, the Bio minutes summed over all
   Bio entries record no adjustment when the sum is <= 30 and exactly one
   negative adjustment -(sum - 30) when it is > 30, and final_hours carries
   that penalty and no Bio bonus. *)
C9_BioCap ==
    (Computed /\ entry[1].login_time # None) =>
        LET te == entry[1]
            adjs == result[1].details.adjustments
            bio == {a \in adjs : a[1] = BIO}
            penalty == Excess(BioSum(te), 30)
            others == SumValues(adjs \ bio)
        IN  /\ \A a \in bio : a[3] = -penalty
            /\ Cardinality(bio) = IF BioSum(te) > 30 THEN 1 ELSE 0
            /\ result[1].final_hours =
                   IF FullDay(te)
                   THEN Max(0, Min(NineHours, NineHours + (others - penalty) * MS_PER_MINUTE))
                   ELSE Max(0, LoggedTime(te) - result[1].details.total_break_minutes * MS_PER_MINUTE
                                   + (others - penalty) * MS_PER_MINUTE)

(* two Bio entries, each under the cap, together over it, in a partial day *)
C9_Witness ==
    /\ Computed /\ PartialDay(entry[1])
    /\ Cardinality({i \in 1..Len(entry[1].breaks) : entry[1].breaks[i].break_type = BIO}) = 2
    /\ \A i \in 1..Len(entry[1].breaks) : DurOrZero(entry[1].breaks[i]) <= 30
    /\ BioSum(entry[1]) = 40
    /\ <<BIO, "excess_penalty", -10>> \in result[1].details.adjustments

(* C11: with a login and no logout the calculator takes 18:00 of the login's
   calendar date as the logout: the details report it, the logged time, the
   full-day test and final_hours are computed against it, and the scenario is
   "Emp forgot to logout" when no penalty minutes apply and no overlap is
   found.  (ComputeHours leaves the session handed in and the store as they
   were.) *)
C11_ForgotLogoutDefaults ==
    (Computed /\ entry[1].login_time # None /\ entry[1].logout_time = None) =>
        LET te == entry[1]
            d == result[1].details
            six_pm == (te.login_time \div MS_PER_DAY) * MS_PER_DAY + At(18, 0, 0)
            logged == six_pm - te.login_time
            full == 2 * Abs(logged - NineHours) < MS_PER_HOUR
            breaks_min == SumDur(te.breaks, BreakType)
        IN  /\ d.logout_time = six_pm
            /\ d.total_logged_hours = logged
            /\ d.is_full_workday = full
            /\ result[1].final_hours =
                    IF full
                    THEN FullDayBranch(Break1Minutes(te), Break2Minutes(te),
                                       BioMinutes(te.breaks)).final_hours
                    ELSE PartialDayBranch(logged, breaks_min, Break1Minutes(te),
                                          Break2Minutes(te),
                                          BioMinutes(te.breaks)).final_hours
            /\ (PenaltyMinutes(te) = 0 /\ ~d.overlap_handling.has_overlaps)
                    => result[1].scenario = <<"Emp forgot to logout">>

----------------------------------------------------------------------------
(* Properties of the merger (SpecMerge) *)

CountKind(breaks, kind) ==
    Cardinality({i \in 1..Len(breaks) : breaks[i].break_type = kind})

(* the calls so far ran one after another: each started with nothing else
   in flight, and all have returned *)
Sequential == AllIdle /\ \A i \in 1..Len(log) : log[i].alone

(* the position of the last delete_time_entry in the history, 0 if none *)
LastDelete ==
    IF \E i \in 1..Len(log) : log[i].call = "delete"
    THEN CHOOSE i \in 1..Len(log) :
             /\ log[i].call = "delete"
             /\ \A j \in (i + 1)..Len(log) : log[j].call # "delete"
    ELSE 0

(* the kwargs of the merger calls made since there was last no session *)
MergesSince ==
    LET calls == SelectSeq(SubSeq(log, LastDelete + 1, Len(log)),
                           LAMBDA c : c.call = "merge")
    IN  [k \in 1..Len(calls) |-> calls[k].kwargs]

EventsMerged(kind) ==
    Cardinality({i \in 1..Len(MergesSince) :
        MergesSince[i][1][1] = "breaks" /\ MergesSince[i][1][2][1].break_type = kind})

(* C3: after any sequence of merger calls from no session, one after another,
   the persisted breaks hold at most one Break1 and at most one Break2 entry,
   and as many Bio entries as Bio events were merged. *)
C3_OneSlotPerKind ==
    Sequential =>
        \A i \in 1..Len(store) :
            /\ CountKind(store[i].breaks, BREAK1) <= 1
            /\ CountKind(store[i].breaks, BREAK2) <= 1
            /\ CountKind(store[i].breaks, BIO) = EventsMerged(BIO)

(* two Break1 events and two Bio events have been merged, one after another *)
C3_Witness ==
    /\ Sequential
    /\ Len(store) = 1
    /\ EventsMerged(BREAK1) = 2
    /\ CountKind(store[1].breaks, BREAK1) = 1
    /\ CountKind(store[1].breaks, BIO) = 2

Permutations3(a, b, c) ==
    {<<a, b, c>>, <<a, c, b>>, <<b, a, c>>, <<b, c, a>>, <<c, a, b>>, <<c, b, a>>}

(* login 09:00, logout 18:00, then Break1 30, Break2 30 and Bio 10 in any order *)
RoundTripLogs ==
    {<<<<<<"login_time", T0900>>>>, <<<<"logout_time", T1800>>>>>> \o p :
        p \in Permutations3(<<<<"breaks", <<Untimed(BREAK1, 30)>>>>>>,
                            <<<<"breaks", <<Untimed(BREAK2, 30)>>>>>>,
                            <<<<"breaks", <<Untimed(BIO, 10)>>>>>>)}

(* C10: from no session, merging login 09:00, logout 18:00 and then Break1 30,
   Break2 30, Bio 10 in any order, and computing hours on the persisted session,
   gives 9.0 hours, scenario "Calculation" and no adjustments. *)
C10_RoundTrip ==
    (Sequential /\ MergesSince \in RoundTripLogs /\ result # <<>>) =>
        /\ entry = get_time_entry(store, Emp)
        /\ result[1].final_hours = NineHours
        /\ result[1].scenario = <<"Calculation">>
        /\ result[1].details.adjustments = {}

C10_Witness ==
    /\ Sequential /\ MergesSince \in RoundTripLogs /\ result # <<>>
    /\ Len(entry[1].breaks) = 3

----------------------------------------------------------------------------
(* Properties of the handlers (Spec) *)

(* worker p's last /break call has returned with a BreakEntry built *)
(* delete_time_entry has not been called *)
NothingDeleted == \A i \in 1..Len(log) : log[i].call # "delete"

BreakReturned(p) ==
    /\ pc[p] = "idle"
    /\ req[p].op = "break"
    /\ "break_entry" \in DOMAIN req[p]

(* the breaks of the persisted session of today *)
PersistedBreaks ==
    IF get_time_entry(store, Emp) = <<>> THEN <<>> ELSE get_time_entry(store, Emp)[1].breaks

Occurrences(breaks, b) == Cardinality({i \in 1..Len(breaks) : breaks[i] = b})

(* C1: a /break call on an existing session whose timed break overlaps one
   already there returns the overlap warning and the break is recorded all the
   same: the persisted breaks contain it. *)
C1_OverlapWarningStillRecords ==
    \A p \in Procs :
        (NothingDeleted /\ BreakReturned(p) /\ req[p].message = "Break recorded with overlap warning")
            => Occurrences(PersistedBreaks, req[p].break_entry) >= 1

(* C2: merges of one (employee, day) key are serialized, so no event is lost:
   every break a /break call reported as recorded is in the persisted session,
   once for each call that recorded it, whatever ran concurrently. *)
C2_NoLostUpdate ==
    \A p \in Procs :
        (NothingDeleted /\ BreakReturned(p) /\ req[p].message = "Break recorded successfully")
            => Occurrences(PersistedBreaks, req[p].break_entry)
                   >= Cardinality({q \in Procs :
                          /\ BreakReturned(q)
                          /\ req[q].message = "Break recorded successfully"
                          /\ req[q].break_entry = req[p].break_entry})

(* C4: a /break call with a Break1 (or Break2) when the session already has an
   entry of that kind succeeds and leaves the submitted entry as the only one
   of its kind. *)
C4_SecondMandatoryBreakReplaces ==
    \A p \in Procs :
        (/\ NothingDeleted
         /\ BreakReturned(p)
         /\ req[p].break_entry.break_type # BIO
         /\ CountKind(req[p].session[1].breaks, req[p].break_entry.break_type) >= 1)
            => /\ req[p].status = 200
               /\ \A i \in 1..Len(PersistedBreaks) :
                      PersistedBreaks[i].break_type = req[p].break_entry.break_type
                          => PersistedBreaks[i] = req[p].break_entry

(* C12: in every reachable state, concurrent creations by two handlers that
   both found no session included, the store holds at most one session per
   employee and day (every document is of today). *)
C12_OneSessionPerKey ==
    \A i, j \in 1..Len(store) : store[i].emp_id = store[j].emp_id => i = j

(* C13: the first event of the day creates the session, whichever it is: a
   /login, /logout or /break handler that found no session for the employee
   answers with success and leaves a persisted session behind. *)
C13_FirstEventCreatesSession ==
    \A p \in Procs :
        (NothingDeleted /\ pc[p] = "idle" /\ req[p].op \in {"login", "logout", "break"}) =>
            /\ get_time_entry(store, Emp) # <<>>
            /\ (req[p].op # "login" /\ req[p].session = <<>>) => req[p].status = 200

----------------------------------------------------------------------------
(* Properties of the detector (SpecOverlap) *)

(* the index pairs of timed entries whose intervals cross *)
Crossing(breaks) ==
    {pr \in (1..Len(breaks)) \X (1..Len(breaks)) :
        /\ pr[1] < pr[2]
        /\ breaks[pr[1]].start_time # None /\ breaks[pr[1]].end_time # None
        /\ breaks[pr[2]].start_time # None /\ breaks[pr[2]].end_time # None
        /\ breaks[pr[1]].start_time < breaks[pr[2]].end_time
        /\ breaks[pr[2]].start_time < breaks[pr[1]].end_time}

(* the pairs of entries a result reports, whatever their positions *)
ReportedPairs(breaks, r) ==
    {{breaks[r.details[k].idx1], breaks[r.details[k].idx2]} : k \in 1..Len(r.details)}

Permuted(breaks, f) == [k \in 1..Len(breaks) |-> breaks[f[k]]]

(* C14: has_overlap is true exactly when two timed entries cross; the pairs
   reported are the crossing pairs, so entries lacking a start or an end never
   take part; the boolean and the set of reported pairs are the same for every
   permutation of the input; every reported overlap is wider than zero. *)
C14_OverlapDetection ==
    Computed =>
        LET breaks == entry[1].breaks
            r == result[1]
        IN  /\ r.has_overlap <=> Crossing(breaks) # {}
            /\ {<<r.details[k].idx1, r.details[k].idx2>> : k \in 1..Len(r.details)}
                    = Crossing(breaks)
            /\ LET timed == SelectSeq(breaks, IsTimed)
                    rt == check_overlapping_breaks(timed)
                IN  /\ rt.has_overlap = r.has_overlap
                    /\ ReportedPairs(timed, rt) = ReportedPairs(breaks, r)
            /\ \A f \in Permutations(1..Len(breaks)) :
                   LET rp == check_overlapping_breaks(Permuted(breaks, f))
                   IN  /\ rp.has_overlap = r.has_overlap
                       /\ ReportedPairs(Permuted(breaks, f), rp) = ReportedPairs(breaks, r)
            /\ \A k \in 1..Len(r.details) :
                   Min(breaks[r.details[k].idx1].end_time, breaks[r.details[k].idx2].end_time)
                     > Max(breaks[r.details[k].idx1].start_time,
                           breaks[r.details[k].idx2].start_time)

(* the ten-second crossing is found among untimed and touching entries *)
C14_Witness ==
    /\ Computed
    /\ Len(entry[1].breaks) = 3
    /\ \E i \in 1..3 : ~IsTimed(entry[1].breaks[i])
    /\ result[1].has_overlap
    /\ Len(result[1].details) = 1
    /\ result[1].details[1].ov_min = 0

----------------------------------------------------------------------------
(* Properties of the merger under few calls (SpecShort) *)

BreaksOf(coll) ==
    IF get_time_entry(coll, Emp) = <<>> THEN <<>> ELSE get_time_entry(coll, Emp)[1].breaks

(* C15: whatever session the store holds, merging a login or logout event a
   second time (same context) leaves what the first merge persisted; the
   merged value is the persisted one and a later value replaces it; such a
   merge leaves the breaks as they were; merging the same Bio break twice
   leaves one more Bio entry than merging it once. *)
C15_MergerIdempotence ==
    \A kwargs \in ShortKwargs, ctx \in MergeContexts :
        LET key == kwargs[1][1]
            once == create_or_update_session(store, unique_index, Emp, kwargs, ctx)
            twice == create_or_update_session(once, unique_index, Emp, kwargs, ctx)
        IN  IF key \in {"login_time", "logout_time"}
            THEN /\ twice = once
                 /\ get_time_entry(once, Emp)[1][key] = kwargs[1][2]
                 /\ BreaksOf(once) = BreaksOf(store)
                 /\ \A later \in ShortKwargs, ctx2 \in MergeContexts :
                        later[1][1] = key =>
                            get_time_entry(create_or_update_session(
                                once, unique_index, Emp, later, ctx2), Emp)[1][key]
                              = later[1][2]
            ELSE kwargs[1][2][1].break_type = BIO =>
                    /\ CountKind(BreaksOf(twice), BIO) = CountKind(BreaksOf(once), BIO) + 1
                    /\ Len(BreaksOf(twice)) = Len(BreaksOf(once)) + 1

(* 10:00 merged twice, one call after the other: the session holds 10:00 *)
C15_Witness ==
    /\ Sequential
    /\ MergesSince = <<<<<<"login_time", T1000>>>>, <<<<"login_time", T1000>>>>>>
    /\ Len(store) = 1
    /\ store[1].login_time = T1000

----------------------------------------------------------------------------
(* Properties of the handlers, continued (Spec) *)

WellFormedBreaks(coll) ==
    \A i \in 1..Len(coll) : \A k \in 1..Len(coll[i].breaks) :
        IsTimed(coll[i].breaks[k]) =>
            coll[i].breaks[k].end_time > coll[i].breaks[k].start_time

(* worker p's handler ends in this step with the validation error *)
Rejected(p) ==
    /\ pc[p] \in {"break_fetch", "validate_fetch"}
    /\ pc'[p] = "idle"
    /\ req'[p].status = 500

(* C16: a break with end <= start is refused when the BreakEntry is built:
   after every step of the /break, /validate-break and merger code no
   persisted break has end <= start, and the step that refuses a submission
   leaves the collection as it was. *)
C16_InvalidBreakRejected ==
    [][/\ WellFormedBreaks(store')
       /\ \A p \in Procs : Rejected(p) => store' = store]_vars

(* a /break ending when it starts was refused while a session with a
   recorded break exists *)
C16_Witness ==
    /\ \E p \in Procs :
          /\ pc[p] = "idle" /\ req[p].op = "break"
          /\ req[p].status = 500
          /\ req[p].message = "End time must be after start time"
    /\ Len(store) = 1
    /\ store[1].breaks # <<>>

----------------------------------------------------------------------------
(* Properties of break durations (SpecDuration) *)

(* C17: a timed break with no duration given records round(seconds / 60)
   minutes, built directly or submitted through record_break: 90 seconds
   give 2 minutes and 59 seconds give 1 minute. *)
C17_DurationRounded ==
    Computed =>
        LET span == entry[1].request.end_time - entry[1].request.start_time
        IN  /\ result[1].direct.duration_minutes = FormatMinutes(span)
            /\ result[1].submitted.duration_minutes = FormatMinutes(span)

----------------------------------------------------------------------------
(* Properties of the merger under few calls, continued (SpecShort) *)

(* C18: whatever session the store holds, a merge into it leaves timezone,
   location and ip_address equal to what was resolved for that merge; after a
   merge with the default timezone and no location, or with no request, the
   session keeps no location or address of an earlier merge. *)
C18_ContextRefreshed ==
    get_time_entry(store, Emp) # <<>> =>
        \A kwargs \in ShortKwargs, ctx \in MergeContexts :
            LET merged == get_time_entry(
                    create_or_update_session(store, unique_index, Emp, kwargs, ctx),
                    Emp)[1]
            IN  /\ merged.timezone = ctx.timezone
                /\ merged.location = ctx.location
                /\ merged.ip_address = ctx.ip_address

----------------------------------------------------------------------------
(* Properties of the calculator, continued (SpecCalc) *)

(* C19: a session with a login that is not a full day (logged time half an
   hour or more away from nine hours, a logout before the login included) gets
   final_hours = max(0, logged - break minutes - penalty minutes), the
   penalties being the minutes of Break1, Break2 and total Bio above 30; no
   adjustment credits time, and final_hours is never negative. *)
C19_PartialDayFormula ==
    (Computed /\ PartialDay(entry[1])) =>
        LET te == entry[1]
            d == result[1].details
        IN  /\ ~d.is_full_workday
            /\ result[1].final_hours =
                   Max(0, LoggedTime(te) - MS_PER_MINUTE * SumDur(te.breaks, BreakType)
                              - MS_PER_MINUTE * PenaltyMinutes(te))
            /\ result[1].final_hours >= 0
            /\ \A a \in d.adjustments : a[3] < 0
            /\ -SumValues(d.adjustments) = PenaltyMinutes(te)

(* four hours logged, twenty minutes of Break1: nothing credited *)
C19_Witness ==
    /\ Computed /\ PartialDay(entry[1])
    /\ entry[1].logout_time = At(13, 0, 0)
    /\ Break1Minutes(entry[1]) = 20
    /\ entry[1].breaks = <<Untimed(BREAK1, 20)>>
    /\ result[1].final_hours = At(4, 0, 0) - 20 * MS_PER_MINUTE

============================================================================
